---------------------------- MODULE Spec2Model ----------------------------
(***************************************************************************)
(* The WebSocket <-> UART bridge of esp32/src/main.rs.                     *)
(*                                                                         *)
(* One UartDriver is created in main and wrapped in Arc<Mutex<..>>; the    *)
(* /ws handler runs once per accepted connection, each run on its own      *)
(* thread of the HTTP server, and loops: ws.recv, lock + uart.write_all,   *)
(* unlock, lock + uart.read + ws.send, unlock.                             *)
(*                                                                         *)
(* The serial peripheral, the hardware fault line and the network peers    *)
(* are the environment: their outcomes are nondeterministic choices.       *)
(* Bytes on the two serial directions carry the number of the exchange     *)
(* they belong to, so that ownership of a byte can be stated.              *)
(***************************************************************************)
EXTENDS Integers, Sequences, FiniteSets, TLC

\* ---- bounds of the model ------------------------------------------------
NumSessions == 2          \* connections the server accepts
NumBytes == 2             \* distinct byte values 1..NumBytes
BufSize == 2              \* stands for the 1024-byte buffers buf and resp
MaxExchanges == 2         \* client frames received over the whole run

Sessions == 1..NumSessions
Bytes == 1..NumBytes
NoSession == 0

\* Non-empty frames that fit the receive buffer: ws.recv returned len in 1..1024.
RECURSIVE SeqsUpTo(_)
SeqsUpTo(n) ==
    IF n = 0 THEN {<<>>}
    ELSE LET shorter == SeqsUpTo(n - 1)
         IN shorter \cup {Append(q, b) : q \in {r \in shorter : Len(r) = n - 1}, b \in Bytes}

Frames == SeqsUpTo(BufSize) \ {<<>>}

Min(a, b) == IF a <= b THEN a ELSE b

VARIABLES
    pc,         \* pc[s]: where session s stands in the handler
    guard,      \* the session holding the MutexGuard, or NoSession
    poisoned,   \* the Mutex is poisoned (uart.lock() returns Err)
    fault,      \* the serial hardware is faulty: uart.write_all / uart.read fail
    nx,         \* number of client frames received so far (exchange numbers)
    xid,        \* xid[s]: number of the exchange s is in, 0 before its first
    buf,        \* buf[s]: &buf[..len] of the current exchange
    wi,         \* wi[s]: bytes of buf[s] write_all has put on the line
    resp,       \* resp[s]: &resp[..n] the current exchange read, tagged bytes
    rres,       \* rres[s]: outcome of uart.read in the current exchange
    sres,       \* sres[s]: outcome of ws.send in the current exchange
    nres,       \* nres[s]: outcome of the last ws.recv
    out,        \* out[s]: frames sent to the client in the current exchange
    replied,    \* replied[s]: what the peripheral had answered when s read
    stale,      \* stale[s]: bytes of another exchange were pending when s read
    errBefore,  \* errBefore[s]: sessions whose exchange had failed on the
                \* serial line when s received its frame with the fault clear
    line,       \* every byte written to the UART, in order, tagged
    reqs,       \* reqs[x]: session, frame and write/reply status of exchange x
    pending,    \* exchanges fully written that the peripheral has not handled
    rx          \* UART receive buffer: bytes the peripheral sent, tagged

vars == <<pc, guard, poisoned, fault, nx, xid, buf, wi, resp, rres, sres, nres,
          out, replied, stale, errBefore, line, reqs, pending, rx>>

sessVars == <<xid, buf, wi, resp, rres, sres, nres, out, replied, stale, errBefore>>
serialVars == <<line, reqs, pending, rx>>

\* ---- helpers --------------------------------------------------------------
Tag(x, f) == [i \in 1..Len(f) |-> [x |-> x, b |-> f[i]]]
Untag(q) == [i \in 1..Len(q) |-> q[i].b]
Owner(x) == reqs[x].s
WRes(s) == IF xid[s] = 0 THEN "none" ELSE reqs[xid[s]].w
BytesOf(x) == Untag(SelectSeq(line, LAMBDA e : e.x = x))

\* The peripheral's two ways of answering a frame: echo it, or answer with
\* other bytes of the same length.
Echo(f) == f
Answer(f) == [i \in 1..Len(f) |-> NumBytes + 1 - f[i]]

Init ==
    /\ pc = [s \in Sessions |-> "idle"]
    /\ guard = NoSession
    /\ poisoned = FALSE
    /\ fault = FALSE
    /\ nx = 0
    /\ xid = [s \in Sessions |-> 0]
    /\ buf = [s \in Sessions |-> <<>>]
    /\ wi = [s \in Sessions |-> 0]
    /\ resp = [s \in Sessions |-> <<>>]
    /\ rres = [s \in Sessions |-> "none"]
    /\ sres = [s \in Sessions |-> "none"]
    /\ nres = [s \in Sessions |-> "none"]
    /\ out = [s \in Sessions |-> <<>>]
    /\ replied = [s \in Sessions |-> "none"]
    /\ stale = [s \in Sessions |-> FALSE]
    /\ errBefore = [s \in Sessions |-> {}]
    /\ line = <<>>
    /\ reqs = <<>>
    /\ pending = <<>>
    /\ rx = <<>>

\* ---- the /ws handler ------------------------------------------------------

\* main.rs:127-129: the server runs the handler for a new connection.
Connect(s) ==
    /\ pc[s] = "idle"
    /\ pc' = [pc EXCEPT ![s] = "recv"]
    /\ UNCHANGED <<guard, poisoned, fault, nx, sessVars, serialVars>>

\* Sessions whose current exchange has failed on the serial line.
Failed == {a \in Sessions : WRes(a) = "err" \/ rres[a] = "err"}

\* main.rs:133-135: ws.recv returned Ok(len), len > 0; buf and resp are fresh.
RecvFrame(s, f) ==
    /\ pc[s] = "recv"
    /\ nx < MaxExchanges
    /\ nx' = nx + 1
    /\ xid' = [xid EXCEPT ![s] = nx + 1]
    /\ buf' = [buf EXCEPT ![s] = f]
    /\ wi' = [wi EXCEPT ![s] = 0]
    /\ resp' = [resp EXCEPT ![s] = <<>>]
    /\ rres' = [rres EXCEPT ![s] = "none"]
    /\ sres' = [sres EXCEPT ![s] = "none"]
    /\ nres' = [nres EXCEPT ![s] = "frame"]
    /\ out' = [out EXCEPT ![s] = <<>>]
    /\ replied' = [replied EXCEPT ![s] = "none"]
    /\ stale' = [stale EXCEPT ![s] = FALSE]
    /\ errBefore' = [errBefore EXCEPT ![s] = IF fault THEN {} ELSE Failed \ {s}]
    /\ reqs' = Append(reqs, [s |-> s, f |-> f, w |-> "none", r |-> "none"])
    /\ pc' = [pc EXCEPT ![s] = "lock1"]
    /\ UNCHANGED <<guard, poisoned, fault, line, pending, rx>>

\* Mutant of AfterRecvClose: a receive of length zero is forwarded like a frame
\* (the `len > 0` guard is missing).
AfterRecvClose_Forwards(s) == "lock1"

\* Where the session goes when ws.recv returned Ok(0).
AfterRecvClose(s) == "closed"

\* main.rs:157: ws.recv returned Ok(0): connection closed, break.
RecvClose(s) ==
    /\ pc[s] = "recv"
    /\ nres' = [nres EXCEPT ![s] = "close"]
    /\ pc' = [pc EXCEPT ![s] = AfterRecvClose(s)]
    /\ UNCHANGED <<guard, poisoned, fault, nx, xid, buf, wi, resp, rres, sres, out,
                   replied, stale, errBefore, serialVars>>

\* main.rs:158-161: ws.recv returned Err: break.
RecvErr(s) ==
    /\ pc[s] = "recv"
    /\ nres' = [nres EXCEPT ![s] = "err"]
    /\ pc' = [pc EXCEPT ![s] = "closed"]
    /\ UNCHANGED <<guard, poisoned, fault, nx, xid, buf, wi, resp, rres, sres, out,
                   replied, stale, errBefore, serialVars>>

\* Mutant of LockForWrite: the write block is entered without waiting for
\* the Mutex (the UART shared without the lock).
LockForWrite_NoExclusion(s) ==
    /\ pc[s] = "lock1"
    /\ pc' = [pc EXCEPT ![s] = "write"]
    /\ guard' = s
    /\ UNCHANGED <<poisoned, fault, nx, sessVars, serialVars>>

\* main.rs:137: uart.lock() blocks until the Mutex is free; a poisoned Mutex
\* gives Err and the write block is skipped.
LockForWrite(s) ==
    /\ pc[s] = "lock1"
    /\ guard = NoSession
    /\ IF poisoned
         THEN /\ pc' = [pc EXCEPT ![s] = "lock2"]
              /\ guard' = guard
         ELSE /\ pc' = [pc EXCEPT ![s] = "write"]
              /\ guard' = s
    /\ UNCHANGED <<poisoned, fault, nx, sessVars, serialVars>>

\* Mutant of WriteReleased: the first guard is still held when the second
\* uart.lock() is called (bound by `let`, not scoped to the block).
WriteReleased_Held(s) == s

\* The guard's holder when the write block (main.rs:137-141) is left.
WriteReleased(s) == NoSession

\* Mutant of AfterWrite: the loop continues with ws.recv right after the
\* write, without the reply read.
AfterWrite_SkipsRead(s, ok) == "recv"

\* Where the session goes when the write block (main.rs:137-141) ends: the
\* guard is dropped and control reaches the second lock, also after an error.
AfterWrite(s, ok) == "lock2"

\* main.rs:138: write_all puts the next byte of buf[..len] on the line; after
\* the last byte the block ends and the guard is dropped.
WriteByte(s) ==
    /\ pc[s] = "write"
    /\ ~fault
    /\ wi[s] < Len(buf[s])
    /\ line' = Append(line, [x |-> xid[s], b |-> buf[s][wi[s] + 1]])
    /\ wi' = [wi EXCEPT ![s] = wi[s] + 1]
    /\ IF wi[s] + 1 = Len(buf[s])
         THEN /\ reqs' = [reqs EXCEPT ![xid[s]].w = "ok"]
              /\ pending' = Append(pending, xid[s])
              /\ guard' = WriteReleased(s)
              /\ pc' = [pc EXCEPT ![s] = AfterWrite(s, TRUE)]
         ELSE UNCHANGED <<reqs, pending, guard, pc>>
    /\ UNCHANGED <<poisoned, fault, nx, xid, buf, resp, rres, sres, nres, out,
                   replied, stale, errBefore, rx>>

\* main.rs:138-140: write_all fails on a hardware fault, possibly after part of
\* the frame went out; the error is logged, the block ends, the guard is dropped.
WriteErr(s) ==
    /\ pc[s] = "write"
    /\ fault
    /\ reqs' = [reqs EXCEPT ![xid[s]].w = "err"]
    /\ guard' = WriteReleased(s)
    /\ pc' = [pc EXCEPT ![s] = AfterWrite(s, FALSE)]
    /\ UNCHANGED <<poisoned, fault, nx, sessVars, line, pending, rx>>

\* Mutant of LockForRead: the read block is entered without waiting for the
\* Mutex.
LockForRead_NoExclusion(s) ==
    /\ pc[s] = "lock2"
    /\ pc' = [pc EXCEPT ![s] = "read"]
    /\ guard' = s
    /\ UNCHANGED <<poisoned, fault, nx, sessVars, serialVars>>

\* main.rs:144: the second uart.lock().
LockForRead(s) ==
    /\ pc[s] = "lock2"
    /\ guard = NoSession
    /\ IF poisoned
         THEN /\ pc' = [pc EXCEPT ![s] = "recv"]
              /\ guard' = guard
         ELSE /\ pc' = [pc EXCEPT ![s] = "read"]
              /\ guard' = s
    /\ UNCHANGED <<poisoned, fault, nx, sessVars, serialVars>>

\* What the peripheral had done with the session's request when it read.
ReplyStatus(s) == reqs[xid[s]].r
StaleIn(s, q) == \E i \in 1..Len(q) : q[i].x # xid[s]

\* main.rs:145-147: uart.read returned Ok(n), n > 0: resp[..n] holds the first
\* n bytes of the receive buffer; the guard stays held for ws.send.
ReadData(s) ==
    /\ pc[s] = "read"
    /\ ~fault
    /\ rx # <<>>
    /\ LET n == Min(Len(rx), BufSize)
       IN /\ resp' = [resp EXCEPT ![s] = SubSeq(rx, 1, n)]
          /\ rx' = SubSeq(rx, n + 1, Len(rx))
    /\ rres' = [rres EXCEPT ![s] = "data"]
    /\ replied' = [replied EXCEPT ![s] = ReplyStatus(s)]
    /\ stale' = [stale EXCEPT ![s] = StaleIn(s, rx)]
    /\ pc' = [pc EXCEPT ![s] = "send"]
    /\ UNCHANGED <<guard, poisoned, fault, nx, xid, buf, wi, sres, nres, out,
                   errBefore, line, reqs, pending>>

\* Mutant of AfterTimeout: a read of zero bytes goes on to ws.send (the
\* `n > 0` guard is missing).
AfterTimeout_Sends(s) == "send"

\* Mutant of AfterTimeout: a read of zero bytes ends the session.
AfterTimeout_Closes(s) == "closed"

\* Where the session goes after a read that returned no bytes.
AfterTimeout(s) == "recv"

\* Mutant of ReadTimeout: uart.read has no timeout and never returns while
\* the receive buffer is empty.
ReadTimeout_Blocks(s) ==
    /\ pc[s] = "read"
    /\ FALSE
    /\ UNCHANGED vars

\* main.rs:146,153: uart.read returned Ok(0), nothing arrived in the wait
\* window: `_ => {}`, the block ends, the guard is dropped, the loop continues.
ReadTimeout(s) ==
    /\ pc[s] = "read"
    /\ ~fault
    /\ rx = <<>>
    /\ rres' = [rres EXCEPT ![s] = "timeout"]
    /\ replied' = [replied EXCEPT ![s] = ReplyStatus(s)]
    /\ guard' = NoSession
    /\ pc' = [pc EXCEPT ![s] = AfterTimeout(s)]
    /\ UNCHANGED <<poisoned, fault, nx, xid, buf, wi, resp, sres, nres, out,
                   stale, errBefore, serialVars>>

\* Where the session goes after a read that returned Err.
AfterReadErr(s) == "recv"

\* main.rs:146,153: uart.read returned Err: `_ => {}` as well.
ReadErr(s) ==
    /\ pc[s] = "read"
    /\ fault
    /\ rres' = [rres EXCEPT ![s] = "err"]
    /\ guard' = NoSession
    /\ pc' = [pc EXCEPT ![s] = AfterReadErr(s)]
    /\ UNCHANGED <<poisoned, fault, nx, xid, buf, wi, resp, sres, nres, out,
                   replied, stale, errBefore, serialVars>>

\* Mutant of SentFrame: the slice is one byte short, resp[..n-1].
SentFrame_OneShort(s) == SubSeq(resp[s], 1, Len(resp[s]) - 1)

\* Mutant of SentFrame: the whole buffer is sent, &resp instead of &resp[..n].
SentFrame_WholeBuffer(s) ==
    resp[s] \o [i \in 1..(BufSize - Len(resp[s])) |-> [x |-> 0, b |-> 0]]

\* The frame ws.send transmits: resp[..n].
SentFrame(s) == resp[s]

\* Mutant of Released: the guard outlives the block (leaked, never dropped).
Released_Leaked(s) == s

\* The guard's holder when the read block (main.rs:144-155) is left.
Released(s) == NoSession

\* Mutant of AfterSend: the handler returns after the first reply.
AfterSend_Closes(s) == "closed"

\* Where the session goes after a successful ws.send: the next loop turn.
AfterSend(s) == "recv"

\* Mutant of AfterSendErr: the send error is only logged, the loop continues.
AfterSendErr_Continues(s) == "recv"

\* Where the session goes after a failed ws.send: break.
AfterSendErr(s) == "closed"

\* main.rs:148: ws.send(&resp[..n]) succeeded; the block ends, the guard is
\* dropped, the loop continues with the next ws.recv.
SendOk(s) ==
    /\ pc[s] = "send"
    /\ out' = [out EXCEPT ![s] = Append(out[s], SentFrame(s))]
    /\ sres' = [sres EXCEPT ![s] = "ok"]
    /\ guard' = Released(s)
    /\ pc' = [pc EXCEPT ![s] = AfterSend(s)]
    /\ UNCHANGED <<poisoned, fault, nx, xid, buf, wi, resp, rres, nres,
                   replied, stale, errBefore, serialVars>>

\* main.rs:148-151: ws.send failed: break leaves the block (the guard is
\* dropped) and the loop.
SendErr(s) ==
    /\ pc[s] = "send"
    /\ sres' = [sres EXCEPT ![s] = "err"]
    /\ guard' = Released(s)
    /\ pc' = [pc EXCEPT ![s] = AfterSendErr(s)]
    /\ UNCHANGED <<poisoned, fault, nx, xid, buf, wi, resp, rres, nres, out,
                   replied, stale, errBefore, serialVars>>

\* ---- the environment ------------------------------------------------------

\* The peripheral answers the oldest frame it has received and not handled.
PeripheralReply(kind) ==
    /\ pending # <<>>
    /\ LET x == Head(pending)
           f == reqs[x].f
       IN /\ rx' = rx \o Tag(x, IF kind = "echo" THEN Echo(f) ELSE Answer(f))
          /\ reqs' = [reqs EXCEPT ![x].r = kind]
    /\ pending' = Tail(pending)
    /\ UNCHANGED <<pc, guard, poisoned, fault, nx, sessVars, line>>

\* The peripheral never answers that frame.
PeripheralSilent ==
    /\ pending # <<>>
    /\ reqs' = [reqs EXCEPT ![Head(pending)].r = "silent"]
    /\ pending' = Tail(pending)
    /\ UNCHANGED <<pc, guard, poisoned, fault, nx, sessVars, line, rx>>

FaultOn ==
    /\ ~fault
    /\ fault' = TRUE
    /\ UNCHANGED <<pc, guard, poisoned, nx, sessVars, serialVars>>

FaultClear ==
    /\ fault
    /\ fault' = FALSE
    /\ UNCHANGED <<pc, guard, poisoned, nx, sessVars, serialVars>>

Next ==
    \/ \E s \in Sessions : Connect(s)
    \/ \E s \in Sessions, f \in Frames : RecvFrame(s, f)
    \/ \E s \in Sessions : RecvClose(s)
    \/ \E s \in Sessions : RecvErr(s)
    \/ \E s \in Sessions : LockForWrite(s)
    \/ \E s \in Sessions : WriteByte(s)
    \/ \E s \in Sessions : WriteErr(s)
    \/ \E s \in Sessions : LockForRead(s)
    \/ \E s \in Sessions : ReadData(s)
    \/ \E s \in Sessions : ReadTimeout(s)
    \/ \E s \in Sessions : ReadErr(s)
    \/ \E s \in Sessions : SendOk(s)
    \/ \E s \in Sessions : SendErr(s)
    \/ \E kind \in {"echo", "answer"} : PeripheralReply(kind)
    \/ PeripheralSilent
    \/ FaultOn
    \/ FaultClear

Spec == Init /\ [][Next]_vars

\* ---- properties -----------------------------------------------------------

IsPrefix(p, q) == Len(p) <= Len(q) /\ SubSeq(q, 1, Len(p)) = p

\* The session has written its whole frame and has not yet read the reply.
AwaitingReply(s) == WRes(s) = "ok" /\ rres[s] = "none"

\* C1 (Exchange atomicity): while a session has written its request and has
\* not yet read the reply, the last bytes on the serial line are its own: no
\* other session has written after it.
C1_ExchangeAtomic ==
    \A a \in Sessions :
        AwaitingReply(a) => line[Len(line)].x = xid[a]

\* Every byte of q answers a request of session s.
OwnBytes(s, q) == \A i \in 1..Len(q) : Owner(q[i].x) = s

\* C2 (Reply ownership): the bytes a session's serial read consumed, and every
\* reply frame it sent to its client, answer only that session's own requests.
C2_ReplyOwnership ==
    \A s \in Sessions :
        /\ OwnBytes(s, resp[s])
        /\ \A k \in 1..Len(out[s]) : OwnBytes(s, out[s][k])

\* The bytes of one exchange lie next to each other on the line.
Contiguous ==
    \A i, j \in 1..Len(line) :
        (i < j /\ line[i].x = line[j].x) => \A k \in i..j : line[k].x = line[i].x

BeingWritten(x) == \E s \in Sessions : pc[s] = "write" /\ xid[s] = x

\* C3 as stated (Write mutual exclusion, whole frames): the bytes of one write
\* are never interleaved with another's, and the line is a concatenation of
\* whole client frames (outside a write in progress).
C3_WholeFrames ==
    /\ Contiguous
    /\ \A x \in 1..nx : ~BeingWritten(x) => BytesOf(x) \in {<<>>, reqs[x].f}

\* C3 amended (Write mutual exclusion): a writing session holds the guard, the
\* bytes of one write are never interleaved with another's, every write put a
\* prefix of its client frame on the line, and the whole frame when write_all
\* returned Ok.
C3_WriteMutex ==
    /\ \A s \in Sessions : pc[s] = "write" => guard = s
    /\ Contiguous
    /\ \A x \in 1..nx :
        /\ IsPrefix(BytesOf(x), reqs[x].f)
        /\ reqs[x].w = "ok" => BytesOf(x) = reqs[x].f
        /\ reqs[x].w = "none" /\ ~BeingWritten(x) => BytesOf(x) = <<>>

\* Two complete frames of different sessions and a frame cut short by a write
\* error are on the line.
C3_Witness ==
    /\ \E x, y \in 1..nx :
        /\ reqs[x].s # reqs[y].s
        /\ reqs[x].w = "ok" /\ Len(reqs[x].f) = BufSize
        /\ reqs[y].w = "err" /\ BytesOf(y) # <<>> /\ BytesOf(y) # reqs[y].f
    /\ Contiguous

\* C4 (Write error closes the session): a session whose write_all failed is
\* Closed: it does no reply read, sends nothing and receives no further frame.
C4_WriteErrorCloses ==
    \A s \in Sessions : WRes(s) = "err" => pc[s] = "closed"

\* C5 (Read error closes the session): a session whose uart.read failed on a
\* hardware fault is Closed and does not return to Connected.
C5_ReadErrorCloses ==
    \A s \in Sessions : rres[s] = "err" => pc[s] = "closed"

\* The session left the loop because of its own network receive.
ClosedByPeer(s) == pc[s] = "closed" /\ nres[s] \in {"close", "err"}

\* C6 (Timeout is not failure): after a serial read of zero bytes the session
\* is Connected again (and leaves only when its own next ws.recv ends the
\* connection), holds no guard and has sent no reply for the exchange.
C6_TimeoutNotFailure ==
    \A s \in Sessions :
        rres[s] = "timeout" =>
            /\ pc[s] = "recv" \/ ClosedByPeer(s)
            /\ guard # s
            /\ out[s] = <<>>
            /\ sres[s] = "none"

\* A frame was written whole, the peripheral stayed silent, the read timed
\* out and the session waits for its next frame.
C6_Witness ==
    \E s \in Sessions :
        /\ rres[s] = "timeout" /\ WRes(s) = "ok" /\ replied[s] \in {"none", "silent"}
        /\ pc[s] = "recv" /\ guard = NoSession

\* C7 (Session isolation): the shared handle is never invalidated, a session
\* is closed only by its own network events, and when session b issues a
\* request after session a's exchange failed on the serial line (fault
\* cleared), the reply to b's request is not taken by a.
C7_SessionIsolation ==
    /\ ~poisoned
    /\ \A b \in Sessions :
        pc[b] = "closed" => (nres[b] \in {"close", "err"} \/ sres[b] = "err")
    /\ \A a, b \in Sessions :
        (a # b /\ a \in errBefore[b]) =>
            \A i \in 1..Len(resp[a]) : resp[a][i].x # xid[b]

\* C8 (Guard release on every exit path): only a session inside the write
\* block, or inside the read block, holds the guard; a session that is
\* Connected, waiting for the lock, or Closed does not.
C8_GuardReleased ==
    \A s \in Sessions : guard = s => pc[s] \in {"write", "read", "send"}

\* Every exit of the guarded blocks has been taken with the guard free after
\* it: a write error, a read timeout or error, and a send error.
C8_Witness ==
    /\ guard = NoSession
    /\ \E s \in Sessions : sres[s] = "err" /\ pc[s] = "closed"
    /\ \E s \in Sessions :
        WRes(s) = "err" /\ rres[s] \in {"timeout", "err"} /\ pc[s] = "recv"

\* C9 (Reply is sent after the guard is released): no session holds the guard
\* while it is in the network send.
C9_SendOutsideGuard ==
    \A s \in Sessions : pc[s] = "send" => guard # s

\* Session s is the only one that ever received a frame.
Single(s) == \A x \in 1..nx : reqs[x].s = s

\* The exchange ran without fault, the peripheral had echoed the request when
\* the session read, and the reply was sent.
EchoedInWindow(s) == Single(s) /\ replied[s] = "echo" /\ sres[s] = "ok"

ExactReply(s) ==
    /\ BytesOf(xid[s]) = buf[s]
    /\ Len(out[s]) = 1
    /\ Untag(out[s][1]) = buf[s]

\* C10 as stated (Byte-exactness): with a single session, when the peripheral
\* echoes frame S inside the read window, the line received exactly S and the
\* client received exactly S as one reply frame.
C10_ByteExact ==
    \A s \in Sessions : EchoedInWindow(s) => ExactReply(s)

\* C10 amended: the same, provided no bytes of an earlier exchange were still
\* pending in the UART receive buffer when the session read.
C10_ByteExactFresh ==
    \A s \in Sessions : (EchoedInWindow(s) /\ ~stale[s]) => ExactReply(s)

\* A frame of the maximum size went out and came back exactly.
C10_Witness ==
    \E s \in Sessions :
        /\ EchoedInWindow(s) /\ ~stale[s]
        /\ Len(buf[s]) = BufSize
        /\ out[s] = <<Tag(xid[s], buf[s])>>

\* C11 (At most one reply per request): in each exchange the session sends at
\* most one frame; a frame is sent only for a client frame, only after a read
\* of n > 0 bytes, and is exactly the bytes read; such a read is followed by
\* one ws.send (which delivers the frame unless it fails); after a read of
\* zero bytes (or a failed read) nothing is sent.
C11_AtMostOneReply ==
    \A s \in Sessions :
        /\ Len(out[s]) <= 1
        /\ out[s] # <<>> =>
            /\ xid[s] # 0
            /\ rres[s] = "data" /\ resp[s] # <<>>
            /\ sres[s] = "ok"
            /\ out[s] = <<resp[s]>>
        /\ sres[s] = "ok" => Len(out[s]) = 1
        /\ rres[s] = "data" => (pc[s] = "send" \/ sres[s] \in {"ok", "err"})
        /\ rres[s] \in {"none", "timeout", "err"} => out[s] = <<>> /\ sres[s] = "none"

\* One session has sent its one reply of the maximum size, another has timed
\* out and sent nothing.
C11_Witness ==
    \E s, u \in Sessions :
        /\ sres[s] = "ok" /\ Len(out[s]) = 1 /\ Len(out[s][1]) = BufSize
        /\ rres[u] = "timeout" /\ WRes(u) = "ok" /\ out[u] = <<>> /\ pc[u] = "recv"

\* C12 (Zero-length receive closes): the step in which ws.recv returns length
\* zero takes the session straight to Closed, without the guard, without any
\* byte written to or read from the serial line and without a frame sent.
C12_ZeroLengthCloses ==
    [][\A s \in Sessions :
        (nres[s] # "close" /\ nres'[s] = "close") =>
            /\ pc'[s] = "closed"
            /\ guard # s /\ guard' = guard
            /\ line' = line /\ rx' = rx
            /\ wi'[s] = wi[s] /\ rres'[s] = rres[s] /\ resp'[s] = resp[s]
            /\ out'[s] = out[s] /\ sres'[s] = sres[s]]_vars

\* A session answered one frame and then closed on a zero-length receive.
C12_Witness ==
    \E s \in Sessions :
        nres[s] = "close" /\ pc[s] = "closed" /\ sres[s] = "ok" /\ guard = NoSession

\* Nothing of session s changes in the step.
SessionStill(s) ==
    /\ xid'[s] = xid[s] /\ buf'[s] = buf[s] /\ wi'[s] = wi[s]
    /\ resp'[s] = resp[s] /\ rres'[s] = rres[s] /\ sres'[s] = sres[s]
    /\ nres'[s] = nres[s] /\ out'[s] = out[s]

\* C13 (Network errors close, Closed is terminal): the step in which ws.recv
\* or ws.send fails takes the session to Closed, and a Closed session stays
\* Closed: it receives, sends, locks, writes and reads nothing any more.
C13_NetErrorCloses ==
    [][\A s \in Sessions :
        /\ (nres[s] # "err" /\ nres'[s] = "err") => pc'[s] = "closed"
        /\ (sres[s] # "err" /\ sres'[s] = "err") => pc'[s] = "closed"
        /\ pc[s] = "closed" => pc'[s] = "closed" /\ SessionStill(s) /\ guard' # s]_vars

\* One session closed on a receive error, another on a send error.
C13_Witness ==
    \E s, u \in Sessions :
        /\ nres[s] = "err" /\ pc[s] = "closed"
        /\ sres[u] = "err" /\ pc[u] = "closed"

\* The session's current exchange has run to its end.
ExchangeDone(s) ==
    /\ WRes(s) \in {"ok", "err"}
    /\ \/ rres[s] \in {"timeout", "err"}
       \/ rres[s] = "data" /\ sres[s] \in {"ok", "err"}

\* C14 (No pipelining): a session waits in ws.recv only before its first
\* exchange or with its exchange finished (write, read and reply send done or
\* failed); every earlier exchange of the session has finished its write, and
\* the steps of an exchange come in order.
C14_NoPipelining ==
    \A s \in Sessions :
        /\ pc[s] = "recv" => (xid[s] = 0 \/ ExchangeDone(s))
        /\ pc[s] \in {"lock1", "write"} =>
            WRes(s) = "none" /\ rres[s] = "none" /\ sres[s] = "none"
        /\ pc[s] \in {"lock2", "read"} =>
            WRes(s) \in {"ok", "err"} /\ rres[s] = "none" /\ sres[s] = "none"
        /\ pc[s] = "send" => rres[s] = "data" /\ sres[s] = "none"
        /\ \A x \in 1..nx :
            (Owner(x) = s /\ x # xid[s]) => reqs[x].w \in {"ok", "err"}

\* A session is writing its second frame after its first exchange ended.
C14_Witness ==
    \E s \in Sessions :
        xid[s] = 2 /\ Owner(1) = s /\ pc[s] = "write" /\ wi[s] = 1

\* C15 (Ready after a successful exchange): after the reply send succeeded the
\* session is Connected again, without the guard (and leaves only when its
\* own next ws.recv ends the connection).
C15_ReadyAfterReply ==
    \A s \in Sessions :
        sres[s] = "ok" => (pc[s] = "recv" \/ ClosedByPeer(s)) /\ guard # s

\* The end-to-end scenario twice on one session: frame <<1, 2>> is answered
\* with other bytes, the reply is delivered, and a second frame <<1, 2>> on the
\* same session is forwarded and answered in the same way.
C15_Witness ==
    \E s \in Sessions :
        /\ xid[s] = 2 /\ Owner(1) = s
        /\ reqs[1].f = <<1, 2>> /\ reqs[1].r = "answer"
        /\ buf[s] = <<1, 2>> /\ BytesOf(2) = <<1, 2>>
        /\ ~stale[s] /\ sres[s] = "ok"
        /\ out[s] = <<Tag(2, Answer(buf[s]))>>
        /\ pc[s] = "recv"

\* C16 (Every serial access is mediated by the guard): a session in
\* uart.write_all or uart.read holds the guard, and at most one session is
\* inside a guarded block.
C16_GuardMediates ==
    /\ \A s \in Sessions : pc[s] \in {"write", "read"} => guard = s
    /\ Cardinality({s \in Sessions : pc[s] \in {"write", "read", "send"}}) <= 1

\* One session reads under the guard while another waits for it.
C16_Witness ==
    \E s, u \in Sessions :
        s # u /\ pc[s] = "read" /\ guard = s /\ pc[u] \in {"lock1", "lock2"}

\* A step of some session that is not a network receive.
HandlerStep ==
    \E s \in Sessions :
        \/ LockForWrite(s) \/ WriteByte(s) \/ WriteErr(s) \/ LockForRead(s)
        \/ ReadData(s) \/ ReadTimeout(s) \/ ReadErr(s) \/ SendOk(s) \/ SendErr(s)

\* C18 (No lock deadlock): a session waiting for the guard does not hold it,
\* and whenever some session waits for the guard a session can take a step.
C18_NoLockDeadlock ==
    /\ \A s \in Sessions : pc[s] \in {"lock1", "lock2"} => guard # s
    /\ (\E s \in Sessions : pc[s] \in {"lock1", "lock2"}) => ENABLED HandlerStep

\* A session that wrote its frame waits for the second lock while the other
\* session holds the guard in its reply send.
C18_Witness ==
    \E s, u \in Sessions :
        s # u /\ pc[s] = "lock2" /\ WRes(s) = "ok" /\ guard = u /\ pc[u] = "send"

\* Bounds shared by both statements of C19: frames fit the buffer, the line
\* holds no bytes of an exchange but a prefix of its own frame, and a reply
\* frame is the 1..BufSize bytes the exchange's own read returned.
FrameAndReplyBounds ==
    /\ \A x \in 1..nx :
        /\ Len(reqs[x].f) \in 1..BufSize
        /\ IsPrefix(BytesOf(x), reqs[x].f)
    /\ \A s \in Sessions :
        /\ Len(resp[s]) <= BufSize
        /\ rres[s] = "data" => Len(resp[s]) >= 1
        /\ \A k \in 1..Len(out[s]) :
            out[s][k] = resp[s] /\ Len(out[s][k]) \in 1..BufSize

\* C19 as stated (Frame bounds): the bytes written for a client frame are as
\* many as ws.recv returned, whatever the outcome of the write.
C19_WriteLenIsRecvLen ==
    /\ FrameAndReplyBounds
    /\ \A x \in 1..nx :
        (reqs[x].w # "none") => Len(BytesOf(x)) = Len(reqs[x].f)

\* C19 amended: as many as ws.recv returned when write_all returned Ok, and
\* never more.
C19_FrameBounds ==
    /\ FrameAndReplyBounds
    /\ \A x \in 1..nx :
        /\ Len(BytesOf(x)) <= Len(reqs[x].f)
        /\ reqs[x].w = "ok" => Len(BytesOf(x)) = Len(reqs[x].f)

\* After a frame of the maximum size, the same session forwarded a one-byte
\* frame and sent a one-byte reply: nothing of the earlier exchange is in them.
C19_Witness ==
    \E s \in Sessions :
        /\ xid[s] = 2 /\ Owner(1) = s /\ BytesOf(1) = reqs[1].f
        /\ Len(reqs[1].f) = BufSize /\ reqs[1].r = "echo"
        /\ Len(buf[s]) = 1 /\ BytesOf(2) = buf[s]
        /\ ~stale[s] /\ sres[s] = "ok" /\ Len(out[s][1]) = 1

\* ---- liveness ----------------------------------------------------------------

WriteStep(s) == WriteByte(s) \/ WriteErr(s)
ReadStep(s) == ReadData(s) \/ ReadTimeout(s) \/ ReadErr(s)
SendStep(s) == SendOk(s) \/ SendErr(s)

\* Fair scheduling of the sessions and of the guard: a session's thread that
\* can run its blocking serial call or its ws.send gets the call to return,
\* and a session waiting in uart.lock() gets the Mutex if it is free again
\* and again.
Fairness ==
    \A s \in Sessions :
        /\ SF_vars(LockForWrite(s))
        /\ WF_vars(WriteStep(s))
        /\ SF_vars(LockForRead(s))
        /\ WF_vars(ReadStep(s))
        /\ WF_vars(SendStep(s))

\* Whether an exchange ends does not depend on the byte values: the fair
\* specification receives the frames of every length with all bytes 1.
LiveFrames == {f \in Frames : \A i \in 1..Len(f) : f[i] = 1}

LiveNext ==
    \/ \E s \in Sessions : Connect(s)
    \/ \E s \in Sessions, f \in LiveFrames : RecvFrame(s, f)
    \/ \E s \in Sessions : RecvClose(s)
    \/ \E s \in Sessions : RecvErr(s)
    \/ \E s \in Sessions : LockForWrite(s)
    \/ \E s \in Sessions : WriteByte(s)
    \/ \E s \in Sessions : WriteErr(s)
    \/ \E s \in Sessions : LockForRead(s)
    \/ \E s \in Sessions : ReadData(s)
    \/ \E s \in Sessions : ReadTimeout(s)
    \/ \E s \in Sessions : ReadErr(s)
    \/ \E s \in Sessions : SendOk(s)
    \/ \E s \in Sessions : SendErr(s)
    \/ \E kind \in {"echo", "answer"} : PeripheralReply(kind)
    \/ PeripheralSilent
    \/ FaultOn
    \/ FaultClear

FairSpec == Init /\ [][LiveNext]_vars /\ Fairness

InExchange(s) == pc[s] \in {"lock1", "write", "lock2", "read", "send"}

=============================================================================
